---- MODULE Spec2Model ----
(***************************************************************************)
(* Model of the "invisible man" camera pipeline: the App component's       *)
(* session state machine (React state, refs and effects), the             *)
(* MediaPipeService camera / frame loop, and the per-frame callback.       *)
(*                                                                         *)
(* React is modelled as it schedules the code: a handler's setState calls  *)
(* are queued in `pending` and committed together by Render (automatic     *)
(* batching), and the passive effects of a commit run later, in            *)
(* FlushEffects, before the next Render.                                   *)
(***************************************************************************)
EXTENDS Integers, Sequences, FiniteSets, TLC

\* ---------------------------------------------------------------- bounds
MaxRetry == 1        \* clicks on the retry button
MaxTimer == 32       \* cap of noPersonTimerRef in the model
MaxCoord == 3        \* landmark coordinates of the gesture model: 0..MaxCoord tenths
Resolution == 4      \* weights in [0,1] are counted in 1/Resolution: 1.0 is Resolution
MaxDt == 6           \* a tick's delta is d/MaxDt seconds, d in 1..MaxDt: at most 1.0 s
MaxReveal == 12      \* cap of |revealProgress| in the model, in 1/Resolution
MaxColour == 2       \* texture samples are intensities 0..MaxColour

\* ------------------------------------------------------------- constants
INITIALIZING == "INITIALIZING"
WAITING_FOR_CLEAR_VIEW == "WAITING_FOR_CLEAR_VIEW"
CAPTURING_BACKGROUND == "CAPTURING_BACKGROUND"
ACTIVE == "ACTIVE"
ERROR == "ERROR"

AppState == {INITIALIZING, WAITING_FOR_CLEAR_VIEW, CAPTURING_BACKGROUND, ACTIVE, ERROR}

\* the frame count of `noPersonTimerRef.current > 30`
CLEAR_VIEW_FRAMES == 30

\* the four status messages of setStatusMessage
MsgInitializing == "initializing camera"
MsgLeaveFrame == "leave the frame to capture the background"
MsgCameraFailed == "camera initialization failed: allow camera permission"
MsgNone == ""

Null == "null"

\* a queued setState call is <<value>>; <<>> is "no call queued"
NoUpdate == <<>>
Set(v) == <<v>>

\* canvas.toDataURL of a canvas with pixels, and of a zero-sized canvas
DataUrlPng == "data:image/png;base64"
DataUrlEmpty == "data:,"

\* ------------------------------------------------------ landmark frames
\* Coordinates are normalized image coordinates in tenths (0.1 units);
\* a landmark frame is absent (undefined), empty, or a record of the three
\* landmarks the code reads; Missing stands for an undefined entry.
Missing == [defined |-> FALSE, x |-> 0, y |-> 0]
Pt(x, y) == [defined |-> TRUE, x |-> x, y |-> y]

Frame(nose, leftIndex, rightIndex) ==
  [kind |-> "frame", nose |-> nose, leftIndex |-> leftIndex, rightIndex |-> rightIndex]

Absent == [kind |-> "absent", nose |-> Missing, leftIndex |-> Missing, rightIndex |-> Missing]
EmptyFrame == [kind |-> "empty", nose |-> Missing, leftIndex |-> Missing, rightIndex |-> Missing]
NoResults == [kind |-> "null", nose |-> Missing, leftIndex |-> Missing, rightIndex |-> Missing]

HandOnHead == Frame(Pt(5, 5), Pt(5, 4), Pt(9, 9))
HandsDown == Frame(Pt(5, 5), Pt(2, 9), Pt(8, 9))

\* the pose results the inference engine delivers in the session model
Results == {Absent, HandOnHead, HandsDown}

hasPeople(landmarks) == landmarks # Absent /\ landmarks # EmptyFrame

\* HEAD_PROXIMITY_THRESHOLD = 0.2, in tenths
HEAD_PROXIMITY_THRESHOLD == 2

\* squared distance; sqrt(d2) < t  <=>  d2 < t*t for t > 0
getDistance2(p1, p2) == (p1.x - p2.x) * (p1.x - p2.x) + (p1.y - p2.y) * (p1.y - p2.y)

\* checkFingerOnHead that does not test the left index for being missing
checkFingerOnHead_unchecked(landmarks) ==
  IF landmarks = Absent \/ landmarks = EmptyFrame THEN FALSE
  ELSE IF ~landmarks.nose.defined \/ ~landmarks.rightIndex.defined THEN FALSE
  ELSE LET nose == landmarks.nose
           leftIndex == landmarks.leftIndex
           rightIndex == landmarks.rightIndex
           near == HEAD_PROXIMITY_THRESHOLD * HEAD_PROXIMITY_THRESHOLD
           leftHandOnHead == getDistance2(leftIndex, nose) < near /\ leftIndex.y < nose.y
           rightHandOnHead == getDistance2(rightIndex, nose) < near /\ rightIndex.y < nose.y
       IN leftHandOnHead \/ rightHandOnHead

\* checkFingerOnHead with `<=` in the proximity test
checkFingerOnHead_inclusive(landmarks) ==
  IF landmarks = Absent \/ landmarks = EmptyFrame THEN FALSE
  ELSE IF ~landmarks.nose.defined \/ ~landmarks.leftIndex.defined
          \/ ~landmarks.rightIndex.defined THEN FALSE
  ELSE LET nose == landmarks.nose
           leftIndex == landmarks.leftIndex
           rightIndex == landmarks.rightIndex
           near == HEAD_PROXIMITY_THRESHOLD * HEAD_PROXIMITY_THRESHOLD
           leftHandOnHead == getDistance2(leftIndex, nose) <= near /\ leftIndex.y < nose.y
           rightHandOnHead == getDistance2(rightIndex, nose) <= near /\ rightIndex.y < nose.y
       IN leftHandOnHead \/ rightHandOnHead

checkFingerOnHead(landmarks) ==
  IF landmarks = Absent \/ landmarks = EmptyFrame THEN FALSE
  ELSE IF ~landmarks.nose.defined \/ ~landmarks.leftIndex.defined
          \/ ~landmarks.rightIndex.defined THEN FALSE
  ELSE LET nose == landmarks.nose
           leftIndex == landmarks.leftIndex
           rightIndex == landmarks.rightIndex
           near == HEAD_PROXIMITY_THRESHOLD * HEAD_PROXIMITY_THRESHOLD
           leftHandOnHead == getDistance2(leftIndex, nose) < near /\ leftIndex.y < nose.y
           rightHandOnHead == getDistance2(rightIndex, nose) < near /\ rightIndex.y < nose.y
       IN leftHandOnHead \/ rightHandOnHead

\* ------------------------------------------------------------------ state
VARIABLES
  appState, statusMessage, backgroundDataUrl, isTouchingHead, retryCount,
  pending,            \* queued setState calls of the handlers run since the last render
  effects,            \* passive effects of the last commit that have not run yet
  mounted,            \* the mount effects have run
  stateRef, noPersonTimerRef, latestResultsRef, mpServiceRef,
  services,           \* the MediaPipeService instances, in creation order
  video,              \* the hidden <video> element
  clearRun,           \* history: the current run of no-person frames
  sourceLost,         \* history: a source fault has happened mid-session
  liveTracks,         \* the services whose acquired MediaStream has tracks not yet stopped
  revealProgress,     \* InvisibleManExperience: revealProgress.current / uRevealFactor
  fragment            \* one fragment of the liquid shader: its texture samples and colour

vars == <<appState, statusMessage, backgroundDataUrl, isTouchingHead, retryCount,
          pending, effects, mounted, stateRef, noPersonTimerRef, latestResultsRef,
          mpServiceRef, services, video, clearRun, sourceLost, liveTracks,
          revealProgress, fragment>>

\* a fragment nothing has been drawn to
NoFragment == [cleanBg |-> 0, liquidColor |-> 0, isEdge |-> 0, personColor |-> 0,
               maskVal |-> 0, outputColor |-> 0, shaded |-> FALSE]

NoPending == [appState |-> NoUpdate, statusMessage |-> NoUpdate,
              backgroundDataUrl |-> NoUpdate, isTouchingHead |-> NoUpdate,
              retryCount |-> 0]

\* new MediaPipeService(...) followed by the synchronous part of initialize();
\* pc is where the service's asynchronous code stands: awaiting "getUserMedia"
\* or "loadedmetadata", in pose.send ("send"), waiting for the animation frame
\* ("raf"), or "done" (initialize returned or threw without a loop, or the loop ended)
NewService == [pc |-> "getUserMedia", isStopped |-> FALSE]

\* history of the frames the callback has counted: the no-person frames in a row
\* since the callback's state entered WAITING_FOR_CLEAR_VIEW and since the last
\* person frame, and whether the last counted frame interrupted a run
NoRun == [sinceEntry |-> 0, sincePerson |-> 0, interrupted |-> FALSE]

NoVideo == [srcObject |-> 0, loaded |-> FALSE, onloadedmetadata |-> 0, ended |-> FALSE]

\* -------------------------------------------------------- MediaPipeService
\* stop() that sets the flag and cancels the frame but leaves the stream attached
\* and its tracks running
stop_flagOnly(st, s) ==
  LET svc == st.services[s]
      svcs == [st.services EXCEPT ![s] =
                 [svc EXCEPT !.isStopped = TRUE,
                             !.pc = IF svc.pc = "raf" THEN "done" ELSE svc.pc]]
  IN [st EXCEPT !.services = svcs]

\* stop() that toggles the flag instead of setting it
stop_toggle(st, s) ==
  LET svc == st.services[s]
      owner == st.video.srcObject
      svcs == [st.services EXCEPT ![s] =
                 [svc EXCEPT !.isStopped = ~svc.isStopped,
                             !.pc = IF svc.pc = "raf" THEN "done" ELSE svc.pc]]
      vid == IF owner # 0
             THEN [st.video EXCEPT !.srcObject = 0, !.loaded = FALSE, !.ended = FALSE]
             ELSE st.video
  IN [st EXCEPT !.services = svcs, !.video = vid, !.liveTracks = @ \ {owner}]

\* stop(): st carries the fields services, video and liveTracks; the tracks it
\* stops are those of the stream attached to the video element
stop(st, s) ==
  LET svc == st.services[s]
      owner == st.video.srcObject
      svcs == [st.services EXCEPT ![s] =
                 [svc EXCEPT !.isStopped = TRUE,
                             !.pc = IF svc.pc = "raf" THEN "done" ELSE svc.pc]]
      vid == IF owner # 0
             THEN [st.video EXCEPT !.srcObject = 0, !.loaded = FALSE, !.ended = FALSE]
             ELSE st.video
  IN [st EXCEPT !.services = svcs, !.video = vid, !.liveTracks = @ \ {owner}]

\* canvas sized to videoWidth x videoHeight, drawImage, toDataURL('image/png')
toDataURL(vid) == IF vid.srcObject # 0 /\ vid.loaded THEN DataUrlPng ELSE DataUrlEmpty

\* ----------------------------------------------------------- App: effects
\* useEffect(() => { stateRef.current = appState; }, [appState])
stateRefEffect(st, app) == [st EXCEPT !.stateRef = app]

\* cleanup of the initialize effect
initializeCleanup(st) ==
  IF st.mpServiceRef # 0 THEN stop(st, st.mpServiceRef) ELSE st

\* the initialize effect (videoRef.current is set once the component is mounted)
initializeEffect(st) ==
  LET st1 == IF st.mpServiceRef # 0 THEN stop(st, st.mpServiceRef) ELSE st
  IN [st1 EXCEPT !.pending = [@ EXCEPT !.appState = Set(INITIALIZING),
                                       !.statusMessage = Set(MsgInitializing)],
                 !.services = Append(@, NewService),
                 !.mpServiceRef = Len(st1.services) + 1]

\* the capture background effect
captureEffect(st, app) ==
  IF app = CAPTURING_BACKGROUND
  THEN [st EXCEPT !.pending = [@ EXCEPT !.backgroundDataUrl = Set(toDataURL(st.video)),
                                        !.appState = Set(ACTIVE),
                                        !.statusMessage = Set(MsgNone)]]
  ELSE st

\* cleanups first, then the effects in the order the component declares them
runCleanups(st, effs) ==
  IF "initialize" \in effs THEN initializeCleanup(st) ELSE st

runEffects(st, effs, app) ==
  LET st1 == IF "stateRef" \in effs THEN stateRefEffect(st, app) ELSE st
      st2 == IF "initialize" \in effs THEN initializeEffect(st1) ELSE st1
      st3 == IF "capture" \in effs THEN captureEffect(st2, app) ELSE st2
  IN st3

AllEffects == {"stateRef", "initialize", "capture"}

EffectState == [services |-> services, video |-> video, pending |-> pending,
                mpServiceRef |-> mpServiceRef, stateRef |-> stateRef,
                liveTracks |-> liveTracks]

\* the run of no-person frames counted "from entry" restarts when the
\* callback's view of the state enters WaitingForClearView
EnterRun(old, new) ==
  IF new = WAITING_FOR_CLEAR_VIEW /\ old # WAITING_FOR_CLEAR_VIEW
  THEN [clearRun EXCEPT !.sinceEntry = 0] ELSE clearRun

ApplyEffects(st) ==
  /\ services' = st.services
  /\ video' = st.video
  /\ pending' = st.pending
  /\ mpServiceRef' = st.mpServiceRef
  /\ stateRef' = st.stateRef
  /\ clearRun' = EnterRun(stateRef, st.stateRef)
  /\ liveTracks' = st.liveTracks

\* -------------------------------------------------------------------- Init
Init ==
  /\ appState = INITIALIZING
  /\ statusMessage = MsgInitializing
  /\ backgroundDataUrl = Null
  /\ isTouchingHead = FALSE
  /\ retryCount = 0
  /\ pending = NoPending
  /\ effects = AllEffects
  /\ mounted = FALSE
  /\ stateRef = INITIALIZING
  /\ noPersonTimerRef = 0
  /\ latestResultsRef = NoResults
  /\ mpServiceRef = 0
  /\ services = <<>>
  /\ video = NoVideo
  /\ clearRun = NoRun
  /\ sourceLost = FALSE
  /\ liveTracks = {}
  /\ revealProgress = 0
  /\ fragment = NoFragment

\* ----------------------------------------------------------------- actions
\* First commit: the effects run once; under React Strict Mode (the race the
\* isStopped guard is written for) they are cleaned up and run a second time.
MountEffects(strict) ==
  /\ ~mounted
  /\ LET once == runEffects(EffectState, AllEffects, appState)
         twice == runEffects(runCleanups(once, AllEffects), AllEffects, appState)
     IN ApplyEffects(IF strict THEN twice ELSE once)
  /\ mounted' = TRUE
  /\ effects' = {}
  /\ UNCHANGED <<appState, statusMessage, backgroundDataUrl, isTouchingHead, retryCount,
                 noPersonTimerRef, latestResultsRef, sourceLost>>
  /\ UNCHANGED <<revealProgress, fragment>>

Pick(new, old) == IF new = NoUpdate THEN old ELSE new[1]

\* React renders and commits the queued updates as one batch
Render ==
  /\ mounted
  /\ effects = {}
  /\ pending # NoPending
  /\ appState' = Pick(pending.appState, appState)
  /\ statusMessage' = Pick(pending.statusMessage, statusMessage)
  /\ backgroundDataUrl' = Pick(pending.backgroundDataUrl, backgroundDataUrl)
  /\ isTouchingHead' = Pick(pending.isTouchingHead, isTouchingHead)
  /\ retryCount' = retryCount + pending.retryCount
  /\ pending' = NoPending
  /\ effects' = (IF appState' # appState THEN {"stateRef", "capture"} ELSE {})
                \cup (IF retryCount' # retryCount THEN {"initialize"} ELSE {})
  /\ UNCHANGED <<mounted, stateRef, noPersonTimerRef, latestResultsRef, mpServiceRef,
                 services, video, clearRun, sourceLost, liveTracks>>
  \* InvisibleManExperience is rendered in ACTIVE with a plate only; unmounted,
  \* its revealProgress ref is gone, and a new mount starts from useRef(0)
  /\ revealProgress' = IF appState' = ACTIVE /\ backgroundDataUrl' # Null
                        THEN revealProgress ELSE 0
  /\ UNCHANGED fragment

\* the passive effects of the last commit
FlushEffects ==
  /\ mounted
  /\ effects # {}
  /\ ApplyEffects(runEffects(runCleanups(EffectState, effects), effects, appState))
  /\ effects' = {}
  /\ UNCHANGED <<appState, statusMessage, backgroundDataUrl, isTouchingHead, retryCount,
                 mounted, noPersonTimerRef, latestResultsRef, sourceLost>>
  /\ UNCHANGED <<revealProgress, fragment>>

\* onClick={() => setRetryCount(c => c + 1)}; the button is rendered in ERROR only
RetryClick ==
  /\ mounted
  /\ appState = ERROR
  /\ retryCount + pending.retryCount < MaxRetry
  /\ pending' = [pending EXCEPT !.retryCount = @ + 1]
  /\ UNCHANGED <<appState, statusMessage, backgroundDataUrl, isTouchingHead, retryCount,
                 effects, mounted, stateRef, noPersonTimerRef, latestResultsRef,
                 mpServiceRef, services, video, clearRun, sourceLost,
                 liveTracks>>
  /\ UNCHANGED <<revealProgress, fragment>>

\* .then() of service.initialize(): runs for whichever service's promise resolves
initializeThen(p) ==
  [p EXCEPT !.appState = Set(WAITING_FOR_CLEAR_VIEW), !.statusMessage = Set(MsgLeaveFrame)]

\* .catch() of service.initialize()
initializeCatch(p) ==
  [p EXCEPT !.appState = Set(ERROR), !.statusMessage = Set(MsgCameraFailed)]

\* getUserMedia resolves for service s, without the isStopped guard: the stream
\* is attached whether or not the service has been stopped
GetUserMediaResolve_unguarded(s) ==
  /\ s \in 1..Len(services)
  /\ services[s].pc = "getUserMedia"
  /\ services' = [services EXCEPT ![s].pc = "loadedmetadata"]
  /\ video' = [srcObject |-> s, loaded |-> FALSE, onloadedmetadata |-> s,
               ended |-> FALSE]
  /\ liveTracks' = liveTracks \cup {s}
  /\ UNCHANGED pending
  /\ UNCHANGED <<appState, statusMessage, backgroundDataUrl, isTouchingHead, retryCount,
                 effects, mounted, stateRef, noPersonTimerRef, latestResultsRef,
                 mpServiceRef, clearRun, sourceLost>>
  /\ UNCHANGED <<revealProgress, fragment>>

\* getUserMedia resolves for service s
GetUserMediaResolve(s) ==
  /\ s \in 1..Len(services)
  /\ services[s].pc = "getUserMedia"
  /\ IF services[s].isStopped
     THEN /\ services' = [services EXCEPT ![s].pc = "done"]
          /\ liveTracks' = (liveTracks \cup {s}) \ {s}
          /\ pending' = initializeThen(pending)
          /\ UNCHANGED video
     ELSE /\ services' = [services EXCEPT ![s].pc = "loadedmetadata"]
          /\ video' = [srcObject |-> s, loaded |-> FALSE, onloadedmetadata |-> s,
                       ended |-> FALSE]
          /\ liveTracks' = liveTracks \cup {s}
          /\ UNCHANGED pending
  /\ UNCHANGED <<appState, statusMessage, backgroundDataUrl, isTouchingHead, retryCount,
                 effects, mounted, stateRef, noPersonTimerRef, latestResultsRef,
                 mpServiceRef, clearRun, sourceLost>>
  /\ UNCHANGED <<revealProgress, fragment>>

\* getUserMedia rejects for service s: initialize() rethrows
GetUserMediaReject(s) ==
  /\ s \in 1..Len(services)
  /\ services[s].pc = "getUserMedia"
  /\ services' = [services EXCEPT ![s].pc = "done"]
  /\ pending' = initializeCatch(pending)
  /\ UNCHANGED <<appState, statusMessage, backgroundDataUrl, isTouchingHead, retryCount,
                 effects, mounted, stateRef, noPersonTimerRef, latestResultsRef,
                 mpServiceRef, video, clearRun, sourceLost, liveTracks>>
  /\ UNCHANGED <<revealProgress, fragment>>

\* processVideo() without the isStopped test at its start
processVideo_unguarded(svc, vid) ==
  IF vid.loaded /\ ~vid.ended THEN "send"
  ELSE "raf"

\* the synchronous start of processVideo(): where the loop goes next
processVideo(svc, vid) ==
  IF svc.isStopped THEN "done"
  ELSE IF vid.loaded /\ ~vid.ended THEN "send"
  ELSE "raf"

\* loadedmetadata fires on the video element: play(), resolve, start the loop
LoadedMetadata ==
  /\ video.srcObject # 0
  /\ ~video.loaded
  /\ LET s == video.onloadedmetadata
         vid == [video EXCEPT !.loaded = TRUE]
     IN /\ video' = vid
        /\ services[s].pc = "loadedmetadata"
        /\ services' = [services EXCEPT ![s].pc =
                          IF ~services[s].isStopped
                          THEN processVideo(services[s], vid) ELSE "done"]
        /\ pending' = initializeThen(pending)
  /\ UNCHANGED <<appState, statusMessage, backgroundDataUrl, isTouchingHead, retryCount,
                 effects, mounted, stateRef, noPersonTimerRef, latestResultsRef,
                 mpServiceRef, clearRun, sourceLost, liveTracks>>
  /\ UNCHANGED <<revealProgress, fragment>>

\* requestAnimationFrame calls processVideo
ProcessVideo(s) ==
  /\ s \in 1..Len(services)
  /\ services[s].pc = "raf"
  /\ processVideo(services[s], video) # "raf"
  /\ services' = [services EXCEPT ![s].pc = processVideo(services[s], video)]
  /\ UNCHANGED <<appState, statusMessage, backgroundDataUrl, isTouchingHead, retryCount,
                 pending, effects, mounted, stateRef, noPersonTimerRef, latestResultsRef,
                 mpServiceRef, video, clearRun, sourceLost, liveTracks>>
  /\ UNCHANGED <<revealProgress, fragment>>

\* wrappedOnResults whose debounce branch runs in every state but ACTIVE
wrappedOnResults_anyState(currentState, timer, landmarks) ==
  IF currentState # ACTIVE
  THEN IF ~hasPeople(landmarks)
       THEN [timer |-> timer + 1,
             appState |-> IF timer + 1 > CLEAR_VIEW_FRAMES
                          THEN Set(CAPTURING_BACKGROUND) ELSE NoUpdate,
             isTouchingHead |-> NoUpdate]
       ELSE [timer |-> 0, appState |-> NoUpdate, isTouchingHead |-> NoUpdate]
  ELSE [timer |-> timer, appState |-> NoUpdate,
        isTouchingHead |-> IF landmarks # Absent
                           THEN Set(checkFingerOnHead(landmarks)) ELSE Set(FALSE)]

\* wrappedOnResults with a counter that decays by one on a person frame
\* instead of being reset
wrappedOnResults_decay(currentState, timer, landmarks) ==
  IF currentState = WAITING_FOR_CLEAR_VIEW
  THEN IF ~hasPeople(landmarks)
       THEN [timer |-> timer + 1,
             appState |-> IF timer + 1 > CLEAR_VIEW_FRAMES
                          THEN Set(CAPTURING_BACKGROUND) ELSE NoUpdate,
             isTouchingHead |-> NoUpdate]
       ELSE [timer |-> IF timer > 0 THEN timer - 1 ELSE 0,
             appState |-> NoUpdate, isTouchingHead |-> NoUpdate]
  ELSE IF currentState = ACTIVE
  THEN [timer |-> timer, appState |-> NoUpdate,
        isTouchingHead |-> IF landmarks # Absent
                           THEN Set(checkFingerOnHead(landmarks)) ELSE Set(FALSE)]
  ELSE [timer |-> timer, appState |-> NoUpdate, isTouchingHead |-> NoUpdate]

\* the per-frame logic of wrappedOnResults, after onResults(results)
wrappedOnResults(currentState, timer, landmarks) ==
  IF currentState = WAITING_FOR_CLEAR_VIEW
  THEN IF ~hasPeople(landmarks)
       THEN [timer |-> timer + 1,
             appState |-> IF timer + 1 > CLEAR_VIEW_FRAMES
                          THEN Set(CAPTURING_BACKGROUND) ELSE NoUpdate,
             isTouchingHead |-> NoUpdate]
       ELSE [timer |-> 0, appState |-> NoUpdate, isTouchingHead |-> NoUpdate]
  ELSE IF currentState = ACTIVE
  THEN [timer |-> timer, appState |-> NoUpdate,
        isTouchingHead |-> IF landmarks # Absent
                           THEN Set(checkFingerOnHead(landmarks)) ELSE Set(FALSE)]
  ELSE [timer |-> timer, appState |-> NoUpdate, isTouchingHead |-> NoUpdate]

\* pose.send() delivers its results to the callback, then the next frame is scheduled
SendResults(s, landmarks) ==
  /\ s \in 1..Len(services)
  /\ services[s].pc = "send"
  /\ LET r == wrappedOnResults(stateRef, noPersonTimerRef, landmarks)
         counted == stateRef = WAITING_FOR_CLEAR_VIEW
         run == IF ~counted THEN clearRun
                ELSE IF hasPeople(landmarks)
                THEN [sinceEntry |-> 0, sincePerson |-> 0,
                      interrupted |-> clearRun.sincePerson > 0]
                ELSE [sinceEntry |-> clearRun.sinceEntry + 1,
                      sincePerson |-> clearRun.sincePerson + 1,
                      interrupted |-> FALSE]
     IN /\ r.timer <= MaxTimer
        /\ latestResultsRef' = landmarks
        /\ noPersonTimerRef' = r.timer
        /\ pending' = [pending EXCEPT
                         !.appState = IF r.appState = NoUpdate THEN @ ELSE r.appState,
                         !.isTouchingHead = IF r.isTouchingHead = NoUpdate
                                            THEN @ ELSE r.isTouchingHead]
        /\ clearRun' = run
  /\ services' = [services EXCEPT ![s].pc = "raf"]
  /\ UNCHANGED <<appState, statusMessage, backgroundDataUrl, isTouchingHead, retryCount,
                 effects, mounted, stateRef, mpServiceRef, video, sourceLost,
                 liveTracks>>
  /\ UNCHANGED <<revealProgress, fragment>>

\* the inference engine dies during pose.send(): the await throws, processVideo's
\* promise rejects unhandled and nothing schedules another frame
EngineLost(s) ==
  /\ s \in 1..Len(services)
  /\ services[s].pc = "send"
  /\ ~services[s].isStopped
  /\ services' = [services EXCEPT ![s].pc = "done"]
  /\ sourceLost' = TRUE
  /\ UNCHANGED <<appState, statusMessage, backgroundDataUrl, isTouchingHead, retryCount,
                 pending, effects, mounted, stateRef, noPersonTimerRef, latestResultsRef,
                 mpServiceRef, video, clearRun, liveTracks>>
  /\ UNCHANGED <<revealProgress, fragment>>

\* the camera stream ends mid-session: the video element reports ended, and
\* processVideo keeps rescheduling itself without sending a frame
StreamLost ==
  /\ video.srcObject # 0
  /\ video.loaded
  /\ ~video.ended
  /\ video' = [video EXCEPT !.ended = TRUE]
  /\ sourceLost' = TRUE
  /\ liveTracks' = liveTracks \ {video.srcObject}
  /\ UNCHANGED <<appState, statusMessage, backgroundDataUrl, isTouchingHead, retryCount,
                 pending, effects, mounted, stateRef, noPersonTimerRef, latestResultsRef,
                 mpServiceRef, services, clearRun>>
  /\ UNCHANGED <<revealProgress, fragment>>

Next ==
  \/ \E strict \in BOOLEAN : MountEffects(strict)
  \/ Render
  \/ FlushEffects
  \/ RetryClick
  \/ \E s \in 1..Len(services) : GetUserMediaResolve(s)
  \/ \E s \in 1..Len(services) : GetUserMediaReject(s)
  \/ LoadedMetadata
  \/ \E s \in 1..Len(services) : ProcessVideo(s)
  \/ \E s \in 1..Len(services), landmarks \in Results : SendResults(s, landmarks)

\* the session with a healthy camera and inference engine
Spec == Init /\ [][Next]_vars

\* the session with source faults: the stream or the engine may be lost
NextFaults ==
  \/ Next
  \/ \E s \in 1..Len(services) : EngineLost(s)
  \/ StreamLost

SpecFaults == Init /\ [][NextFaults]_vars

\* a step in which pose.send delivers a frame to the callback
FrameDelivered ==
  \E s \in 1..Len(services) : services[s].pc = "send" /\ services'[s].pc = "raf"

\* a step in which setAppState(CAPTURING_BACKGROUND) is newly queued
CaptureRequested ==
  /\ pending'.appState = Set(CAPTURING_BACKGROUND)
  /\ pending.appState # Set(CAPTURING_BACKGROUND)

\* nothing the code has started is still in flight: no queued update, no effect
\* to run, no camera request or frame pending, and no frame loop that would send
Quiescent ==
  /\ mounted
  /\ pending = NoPending
  /\ effects = {}
  /\ \A s \in 1..Len(services) :
        /\ services[s].pc \notin {"getUserMedia", "loadedmetadata", "send"}
        /\ services[s].pc = "raf" => processVideo(services[s], video) = "raf"

\* the status message each session state is given by the code that enters it
\* (the frame callback enters CAPTURING_BACKGROUND without a message of its own)
MessageOf(state) ==
  CASE state = INITIALIZING -> MsgInitializing
    [] state = WAITING_FOR_CLEAR_VIEW -> MsgLeaveFrame
    [] state = CAPTURING_BACKGROUND -> MsgLeaveFrame
    [] state = ACTIVE -> MsgNone
    [] state = ERROR -> MsgCameraFailed

\* C1: in WaitingForClearView the transition to CapturingBackground is requested
\* on the 30th consecutive no-person frame (counted from entry or from the last
\* person-detected frame) and on no earlier frame.
C1_RequestOnThirtiethFrame ==
  [][(FrameDelivered /\ stateRef = WAITING_FOR_CLEAR_VIEW
        /\ ~hasPeople(latestResultsRef'))
       => /\ clearRun'.sinceEntry = CLEAR_VIEW_FRAMES
               => pending'.appState = Set(CAPTURING_BACKGROUND)
          /\ clearRun'.sinceEntry < CLEAR_VIEW_FRAMES => ~CaptureRequested]_vars

\* C2: a frame with a person, processed while the callback sees
\* WaitingForClearView, leaves the debounce counter at exactly 0, and the
\* transition is requested only by a no-person frame that ends an uninterrupted
\* run of more than CLEAR_VIEW_FRAMES no-person frames since the last person frame.
C2_PersonFrameResetsCounter ==
  [][FrameDelivered
       => /\ (stateRef = WAITING_FOR_CLEAR_VIEW /\ hasPeople(latestResultsRef'))
               => noPersonTimerRef' = 0
          /\ CaptureRequested
               => (~hasPeople(latestResultsRef')
                   /\ clearRun'.sincePerson > CLEAR_VIEW_FRAMES)]_vars

\* C2 witness: a person frame has interrupted a run of clear frames that was
\* being counted, and the counter is back at 0
C2_Witness ==
  /\ stateRef = WAITING_FOR_CLEAR_VIEW
  /\ hasPeople(latestResultsRef)
  /\ clearRun.interrupted
  /\ noPersonTimerRef = 0

\* C3: the background plate is defined if and only if the session is Active.
C3_PlateIffActive ==
  (backgroundDataUrl # Null) <=> (appState = ACTIVE)

\* C4: the restart that follows a retry (the initialize effect run for a changed
\* retryCount) requests Initializing and leaves the plate cleared, the debounce
\* counter 0 and the gesture signal false.
C4_RetryResetsDerivedState ==
  [][(mounted /\ "initialize" \in effects /\ effects' = {})
       => /\ pending'.appState = Set(INITIALIZING)
          /\ Pick(pending'.backgroundDataUrl, backgroundDataUrl') = Null
          /\ noPersonTimerRef' = 0
          /\ Pick(pending'.isTouchingHead, isTouchingHead') = FALSE]_vars

\* C5: a snapshot of a zero-sized video frame is never stored as the plate (the
\* session waits in CapturingBackground instead).
C5_NoPlateFromEmptyFrame ==
  /\ backgroundDataUrl # DataUrlEmpty
  /\ pending.backgroundDataUrl # Set(DataUrlEmpty)

\* C6: the session leaves CapturingBackground only to Active, and with a plate
\* committed in the same step.
C6_CaptureCommitsActiveWithPlate ==
  [][(appState = CAPTURING_BACKGROUND /\ appState' # CAPTURING_BACKGROUND)
       => (appState' = ACTIVE /\ backgroundDataUrl' # Null)]_vars

\* C7: Error is absorbing: the session leaves Error only to Initializing, by a
\* restart.
C7_ErrorAbsorbing ==
  [][appState = ERROR => appState' \in {ERROR, INITIALIZING}]_vars

\* C8: once Active, the session stays Active until a restart.
C8_ActiveStaysActive ==
  [][appState = ACTIVE => appState' \in {ACTIVE, INITIALIZING}]_vars

\* C9: after a source fault mid-session (stream or inference engine lost) the
\* session ends up in Error: once everything in flight has run, the state is Error.
C9_SourceLostDrivesError ==
  ((sourceLost \/ video.ended) /\ Quiescent) => appState = ERROR

TransitionNotYetVisible ==
  \/ pending.appState = Set(CAPTURING_BACKGROUND)
  \/ (appState = CAPTURING_BACKGROUND /\ stateRef # CAPTURING_BACKGROUND)

\* C11: a transition requested by the callback for one frame is visible to the
\* callback for the next frame: no frame is processed while stateRef is older
\* than a transition an earlier callback has requested.
C11_NoFrameAgainstStaleState ==
  [][FrameDelivered => ~TransitionNotYetVisible]_vars

\* C12: when the camera request of a service that was stopped while the request
\* was pending completes, the stream has no live track left, it is not attached
\* to the video element, and the service is finished: from then on it never
\* waits for metadata, never sends a frame and never schedules one.
C12_StoppedWhilePendingNeverStarts ==
  [][\A s \in 1..Len(services) :
       /\ (services[s].isStopped /\ services[s].pc = "getUserMedia"
             /\ services'[s].pc # "getUserMedia")
            => /\ s \notin liveTracks'
               /\ video'.srcObject # s
               /\ video' = video
               /\ services'[s].pc = "done"
       /\ (services[s].isStopped /\ services[s].pc = "done")
            => /\ services'[s].pc = "done"
               /\ s \notin liveTracks'
               /\ video'.srcObject # s]_vars

\* C12 witness: under Strict Mode the first service was stopped with its camera
\* request pending, and the request has since resolved (its .then() has queued
\* WaitingForClearView) while the second service still waits for its camera
C12_Witness ==
  /\ Len(services) = 2
  /\ services[1] = [pc |-> "done", isStopped |-> TRUE]
  /\ services[2].pc = "getUserMedia"
  /\ pending.appState = Set(WAITING_FOR_CLEAR_VIEW)
  /\ video.srcObject = 0
  /\ liveTracks = {}

\* C13: once stop() has returned on a service, the camera tracks are released
\* (its stream has no live track and is not attached to the video element) and
\* the service submits no further frame to the inference engine: it never enters
\* pose.send again, whether the stop came before, during or after a send.
C13_StopHaltsLoopAndReleasesCamera ==
  [][\A s \in 1..Len(services) :
       /\ (~services[s].isStopped /\ services'[s].isStopped)
            => (liveTracks' = {} /\ video'.srcObject = 0)
       /\ services[s].isStopped
            => /\ services'[s].isStopped
               /\ services'[s].pc = "send" => services[s].pc = "send"
               /\ s \notin liveTracks'
               /\ video'.srcObject # s]_vars

\* C13 witness: a running service was stopped during an in-flight send; the send
\* has completed and scheduled the next animation frame of the stopped service
C13_Witness ==
  \E s \in 1..Len(services) :
    /\ services[s].isStopped
    /\ services[s].pc = "raf"
    /\ s \notin liveTracks

GridPoints == {Pt(x, y) : x \in 0..MaxCoord, y \in 0..MaxCoord}

GestureFrames ==
  {Absent, EmptyFrame}
    \cup {Frame(n, l, r) : n \in GridPoints \cup {Missing},
                           l \in GridPoints \cup {Missing},
                           r \in GridPoints \cup {Missing}}

\* an Active session with a plate and a running service, as left by the capture
ActiveSession ==
  /\ appState = ACTIVE
  /\ statusMessage = MsgNone
  /\ backgroundDataUrl = DataUrlPng
  /\ retryCount = 0
  /\ pending = NoPending
  /\ effects = {}
  /\ mounted = TRUE
  /\ stateRef = ACTIVE
  /\ noPersonTimerRef = CLEAR_VIEW_FRAMES + 1
  /\ mpServiceRef = 1
  /\ video = [srcObject |-> 1, loaded |-> TRUE, onloadedmetadata |-> 1, ended |-> FALSE]
  /\ clearRun = [sinceEntry |-> CLEAR_VIEW_FRAMES + 1,
                 sincePerson |-> CLEAR_VIEW_FRAMES + 1, interrupted |-> FALSE]
  /\ sourceLost = FALSE
  /\ liveTracks = {1}

\* the session at the point of wrappedOnResults where onResults(results) has
\* stored the frame in latestResultsRef and the per-frame logic is about to run;
\* the gesture signal of the previous frame is either value
InitGesture ==
  /\ ActiveSession
  /\ isTouchingHead \in BOOLEAN
  /\ latestResultsRef \in GestureFrames
  /\ services = <<[pc |-> "send", isStopped |-> FALSE]>>
  /\ revealProgress = 0
  /\ fragment = NoFragment

\* the callback processes the stored frame, React commits, and the loop sends
\* the next frame of the same pose
NextGesture ==
  \/ \E s \in 1..Len(services) : SendResults(s, latestResultsRef)
  \/ Render
  \/ \E s \in 1..Len(services) : ProcessVideo(s)

SpecGesture == InitGesture /\ [][NextGesture]_vars

\* the frame has all three landmarks the evaluator reads
Complete(landmarks) ==
  /\ landmarks.kind = "frame"
  /\ landmarks.nose.defined
  /\ landmarks.leftIndex.defined
  /\ landmarks.rightIndex.defined

\* the gesture signal after the queued update, if any, is committed
GestureSignal == Pick(pending.isTouchingHead, isTouchingHead)

\* the frame has been processed by the callback at least once
Evaluated == pending.isTouchingHead # NoUpdate \/ services[1].pc = "raf"

\* C15: for a frame with nose, left index and right index, the gesture is true
\* exactly when for at least one hand the index finger is closer to the nose
\* than the threshold (0.2) and above it (smaller y); so it is false when both
\* distances are at or beyond the threshold.
C15_GestureIffNearAndAbove ==
  (Evaluated /\ Complete(latestResultsRef))
    => (GestureSignal <=>
          \E finger \in {latestResultsRef.leftIndex, latestResultsRef.rightIndex} :
            /\ getDistance2(finger, latestResultsRef.nose)
                 < HEAD_PROXIMITY_THRESHOLD * HEAD_PROXIMITY_THRESHOLD
            /\ finger.y < latestResultsRef.nose.y)

\* C15 witness: a processed frame whose left index is above the nose at exactly
\* the threshold distance and whose right index is farther: the gesture is false
C15_Witness ==
  /\ Evaluated
  /\ Complete(latestResultsRef)
  /\ latestResultsRef.leftIndex.y < latestResultsRef.nose.y
  /\ getDistance2(latestResultsRef.leftIndex, latestResultsRef.nose)
       = HEAD_PROXIMITY_THRESHOLD * HEAD_PROXIMITY_THRESHOLD
  /\ getDistance2(latestResultsRef.rightIndex, latestResultsRef.nose)
       > HEAD_PROXIMITY_THRESHOLD * HEAD_PROXIMITY_THRESHOLD
  /\ ~GestureSignal

\* C16: for a frame that is absent or empty, or in which the nose, the left
\* index or the right index is missing, the evaluator returns false wherever the
\* other landmarks are, and processing the frame changes nothing else: the only
\* update is the gesture signal set to false.
C16_IncompleteFrameIsNoGesture ==
  [][(FrameDelivered /\ ~Complete(latestResultsRef'))
       => /\ ~checkFingerOnHead(latestResultsRef')
          /\ pending' = [pending EXCEPT !.isTouchingHead = Set(FALSE)]
          /\ UNCHANGED <<appState, statusMessage, backgroundDataUrl, isTouchingHead,
                         retryCount, effects, mounted, stateRef, noPersonTimerRef,
                         mpServiceRef, video, liveTracks, sourceLost,
                         revealProgress>>]_vars

\* C16 witness: the gesture was on, and a processed frame whose nose is missing
\* while both index fingers are present has queued the signal false
C16_Witness ==
  /\ isTouchingHead
  /\ pending.isTouchingHead = Set(FALSE)
  /\ latestResultsRef.kind = "frame"
  /\ ~latestResultsRef.nose.defined
  /\ latestResultsRef.leftIndex.defined
  /\ latestResultsRef.rightIndex.defined
  /\ latestResultsRef.leftIndex = latestResultsRef.rightIndex

\* ---------------------------------------------------- the reveal easing
\* the rate of `delta * 3.0`
LERP_RATE == 3

\* THREE.MathUtils.lerp(x, y, t) = (1 - t) * x + t * y for t = num/den, not clamped
lerp(x, y, num, den) == ((den - num) * x + num * y) \div den

\* the value lerp computes is one the model's fixed-point grid holds exactly
lerpExact(x, y, num, den) == ((den - num) * x + num * y) % den = 0

\* useFrame((state, delta) => ...) of InvisibleManExperience for delta = d/MaxDt
\* seconds: the component is rendered (ACTIVE with a plate) and its texture loaded
useFrame(d) ==
  /\ mounted
  /\ appState = ACTIVE
  /\ backgroundDataUrl # Null
  /\ LET targetReveal == IF isTouchingHead THEN Resolution ELSE 0
         eased == lerp(revealProgress, targetReveal, LERP_RATE * d, MaxDt)
     IN /\ lerpExact(revealProgress, targetReveal, LERP_RATE * d, MaxDt)
        /\ eased >= -MaxReveal
        /\ eased <= MaxReveal
        /\ revealProgress' = eased
  /\ UNCHANGED <<appState, statusMessage, backgroundDataUrl, isTouchingHead, retryCount,
                 pending, effects, mounted, stateRef, noPersonTimerRef, latestResultsRef,
                 mpServiceRef, services, video, clearRun, sourceLost, liveTracks,
                 fragment>>

\* the experience has just been mounted: revealProgress is useRef(0), the
\* gesture signal is either value
InitReveal ==
  /\ ActiveSession
  /\ isTouchingHead \in BOOLEAN
  /\ latestResultsRef \in Results
  /\ services = <<[pc |-> "raf", isStopped |-> FALSE]>>
  /\ revealProgress = 0
  /\ fragment = NoFragment

\* compositor ticks of every delta up to one second, interleaved with the frame
\* loop that drives the gesture signal
NextReveal ==
  \/ \E d \in 1..MaxDt : useFrame(d)
  \/ \E s \in 1..Len(services), landmarks \in Results : SendResults(s, landmarks)
  \/ Render
  \/ \E s \in 1..Len(services) : ProcessVideo(s)

SpecReveal == InitReveal /\ [][NextReveal]_vars

\* C17: RevealFactor stays in [0,1] after every compositor tick with a delta of
\* at most one second: easing toward 1 never overshoots 1, easing toward 0 never
\* undershoots 0.
C17_RevealFactorInUnitInterval ==
  revealProgress >= 0 /\ revealProgress <= Resolution

\* C18: the plate is write-once per session: in a session that has not been
\* restarted (no retry yet), once the plate is set no further capture is stored
\* or queued to be stored over it.
C18_PlateWriteOnce ==
  (retryCount = 0 /\ pending.retryCount = 0 /\ backgroundDataUrl # Null)
    => pending.backgroundDataUrl = NoUpdate

\* C19: the gesture signal that drives RevealFactor changes only in a session
\* that is Active and has a plate, and it is false (RevealFactor 0) when a
\* restart brings the session back to Initializing.
C19_GestureOnlyWhileActive ==
  [][/\ (isTouchingHead' # isTouchingHead \/ revealProgress' # revealProgress)
          => (appState' = ACTIVE /\ backgroundDataUrl' # Null)
     /\ (appState # INITIALIZING /\ appState' = INITIALIZING)
          => (~isTouchingHead' /\ revealProgress' = 0)]_vars

\* ------------------------------------------------------ the liquid shader
\* GLSL mix(x, y, a) = x * (1 - a) + y * a for a = num/den, times den (the
\* division is left out so that the arithmetic is exact)
mix(x, y, num, den) == x * (den - num) + y * num

\* the composition of main() without maskVal in the reveal weight
main_unmasked(f, uRevealFactor) ==
  LET edgeBlend == mix(f.cleanBg, f.liquidColor, f.isEdge, Resolution)
  IN mix(edgeBlend, f.personColor * Resolution,
         uRevealFactor * Resolution, Resolution * Resolution)

\* the composition of main(): outputColor, times Resolution^3
main(f, uRevealFactor) ==
  LET edgeBlend == mix(f.cleanBg, f.liquidColor, f.isEdge, Resolution)
  IN mix(edgeBlend, f.personColor * Resolution,
         uRevealFactor * f.maskVal, Resolution * Resolution)

Colours == 0..MaxColour
Weights == 0..Resolution
RevealValues == (-MaxReveal)..MaxReveal

\* the fragment shader runs for the fragment with the current uRevealFactor
Shade ==
  /\ ~fragment.shaded
  /\ fragment' = [fragment EXCEPT !.outputColor = main(fragment, revealProgress),
                                  !.shaded = TRUE]
  /\ UNCHANGED <<appState, statusMessage, backgroundDataUrl, isTouchingHead, retryCount,
                 pending, effects, mounted, stateRef, noPersonTimerRef, latestResultsRef,
                 mpServiceRef, services, video, clearRun, sourceLost, liveTracks,
                 revealProgress>>

\* an Active session about to draw one fragment: every combination of the
\* texture samples, the edge weight, the mask value and the reveal factor
InitShader ==
  /\ ActiveSession
  /\ isTouchingHead = FALSE
  /\ latestResultsRef = HandsDown
  /\ services = <<[pc |-> "raf", isStopped |-> FALSE]>>
  /\ revealProgress \in RevealValues
  /\ \E cleanBg \in Colours, liquidColor \in Colours, personColor \in Colours,
        isEdge \in Weights, maskVal \in Weights :
       fragment = [cleanBg |-> cleanBg, liquidColor |-> liquidColor, isEdge |-> isEdge,
                   personColor |-> personColor, maskVal |-> maskVal,
                   outputColor |-> 0, shaded |-> FALSE]

NextShader == Shade

SpecShader == InitShader /\ [][NextShader]_vars

\* C20: for a fragment whose mask value is 0 the output is the edge/background
\* blend mix(cleanBg, liquidColor, isEdge), and it is the output of every run
\* that differs only in the reveal factor or in the video sample.
C20_MaskZeroHidesSubject ==
  (fragment.shaded /\ fragment.maskVal = 0)
    => /\ fragment.outputColor
            = Resolution * Resolution
                * mix(fragment.cleanBg, fragment.liquidColor, fragment.isEdge, Resolution)
       /\ \A r \in RevealValues, p \in Colours :
            main([fragment EXCEPT !.personColor = p], r) = fragment.outputColor

\* C20 witness: a shaded fragment outside the mask, on a partial edge, at full
\* reveal, whose video sample differs from both background samples
C20_Witness ==
  /\ fragment.shaded
  /\ fragment.maskVal = 0
  /\ revealProgress = Resolution
  /\ fragment.isEdge > 0
  /\ fragment.isEdge < Resolution
  /\ fragment.personColor # fragment.cleanBg
  /\ fragment.personColor # fragment.liquidColor
  /\ fragment.liquidColor # fragment.cleanBg

\* a step in which the initialize() call of service s, stopped earlier, completes
\* (its promise resolves or rejects)
StaleCompletion(s) ==
  /\ services[s].isStopped
  /\ services[s].pc \in {"getUserMedia", "loadedmetadata"}
  /\ services'[s].pc = "done"

\* C21: when the initialize() call of a service that has already been stopped
\* completes, with success or with failure, no change of the session state or of
\* the status message is requested.
C21_StaleCompletionIsIgnored ==
  [][\A s \in 1..Len(services) :
       StaleCompletion(s)
         => /\ pending'.appState = pending.appState
            /\ pending'.statusMessage = pending.statusMessage]_vars

\* the services on which stop() has not been called
Unstopped == {s \in 1..Len(services) : ~services[s].isStopped}

\* C22: at any moment at most one service is un-stopped and at most one camera
\* stream has live tracks: every service but the most recently created one has
\* been stopped, and a live stream belongs to the service the App refers to.
C22_OneServiceOneStream ==
  /\ Cardinality(Unstopped) <= 1
  /\ Cardinality(liveTracks) <= 1
  /\ \A s \in 1..Len(services) : s < Len(services) => services[s].isStopped
  /\ Unstopped \subseteq {mpServiceRef}
  /\ liveTracks \subseteq Unstopped

\* C22 witness: after a Strict Mode mount and a retry, the third service runs
\* with the only live stream and both earlier services are stopped
C22_Witness ==
  /\ Len(services) = 3
  /\ Unstopped = {3}
  /\ liveTracks = {3}
  /\ video.srcObject = 3
  /\ retryCount = 1

\* C23: a result delivered while the callback observes Initializing,
\* CapturingBackground or Error changes only the latest-results cell: no update
\* is queued and the session state, the debounce counter and the gesture signal
\* are unchanged; a result observed in WaitingForClearView queues no gesture
\* update; a result observed in Active leaves the debounce counter alone and
\* queues no state change.
C23_FrameEffectByState ==
  [][FrameDelivered
       => /\ UNCHANGED <<appState, statusMessage, backgroundDataUrl, isTouchingHead,
                         retryCount, stateRef>>
          /\ stateRef \in {INITIALIZING, CAPTURING_BACKGROUND, ERROR}
               => /\ pending' = pending
                  /\ noPersonTimerRef' = noPersonTimerRef
          /\ stateRef = WAITING_FOR_CLEAR_VIEW
               => pending'.isTouchingHead = pending.isTouchingHead
          /\ stateRef = ACTIVE
               => /\ noPersonTimerRef' = noPersonTimerRef
                  /\ pending'.appState = pending.appState]_vars

\* C23 witness: the callback observes Error, no plate was ever captured, and the
\* last frame delivered shows a person with the hand on the head: the counter
\* still holds the clear frames counted before and no gesture update is queued
C23_Witness ==
  /\ stateRef = ERROR
  /\ latestResultsRef = HandOnHead
  /\ noPersonTimerRef > 0
  /\ backgroundDataUrl = Null
  /\ pending = NoPending
  /\ ~isTouchingHead

====
